---- MODULE Spec2Model ----
(***************************************************************************)
(* Model of source/controllers/bookings.ts: the booking table behind       *)
(* prisma.booking, the createBooking and extendBooking handlers, and the   *)
(* availability test isDateRangeAvailable.                                 *)
(*                                                                         *)
(* Dates are day numbers; getCheckoutDate adds a number of days.           *)
(* The table is a sequence of rows in insertion order; a row's id is its   *)
(* position (autoincrement, no row is ever deleted).                       *)
(***************************************************************************)
EXTENDS Integers, Sequences, FiniteSets, TLC

\* ---------------------------------------------------------------- bounds
MaxDay == 3          \* check-in dates are 1..MaxDay
MaxNights == 2       \* largest night count a request carries
MaxStay == 4         \* requests that would store more nights are not issued
MaxProbeNights == 3  \* largest night count of a directly evaluated interval
MaxRaceDay == 2      \* check-in dates of concurrent requests are 1..MaxRaceDay
MaxRaceNights == 1   \* largest night count a concurrent request carries
MaxRaceStay == 3     \* concurrent requests that could store more nights are not issued

Guests == {"ann", "bob"}
Units == {"u1", "u2"}
Days == 1..MaxDay
Procs == {1, 2}

\* ------------------------------------------------------- response bodies
ReasonSameUnit == "The given guest name cannot book the same unit multiple times"
ReasonMultipleUnits == "The same guest cannot be in multiple units at the same time"
ReasonOccupied == "For the given check-in date, the unit is already occupied"
ReasonNoActive == "No active bookings found for this guest"
ReasonExtend == "extend booking is not possible, this unit is already reserved by other customer"

VARIABLES
    bookings,   \* the prisma.booking table
    request,    \* req.body of the request handled last (sequential handlers)
    response,   \* what res.status(..).json(..) sent for it
    proc,       \* per concurrent request: position and locals of its handler
    base,       \* the table when the running pair of concurrent requests began
    probe       \* inputs and results of a direct evaluation of the overlap test

vars == <<bookings, request, response, proc, base, probe>>

\* ------------------------------------------------------------ pure parts
getCheckoutDate(checkInDate, numberOfNights) == checkInDate + numberOfNights

\* dateRangeClash with the "ends inside" case left out
dateRangeClashNoEndsInside(checkInDate, newCheckOutDate, existingCheckInDate, existingCheckOutDate) ==
    \/ (checkInDate >= existingCheckInDate /\ checkInDate < existingCheckOutDate)
    \/ (checkInDate <= existingCheckInDate /\ newCheckOutDate >= existingCheckOutDate)

\* dateRangeClash with the "fully contains" case left out
dateRangeClashNoContains(checkInDate, newCheckOutDate, existingCheckInDate, existingCheckOutDate) ==
    \/ (checkInDate >= existingCheckInDate /\ checkInDate < existingCheckOutDate)
    \/ (newCheckOutDate > existingCheckInDate /\ newCheckOutDate <= existingCheckOutDate)

\* dateRangeClash with a check-in on the existing checkout date counted as inside
dateRangeClashInclusiveEnd(checkInDate, newCheckOutDate, existingCheckInDate, existingCheckOutDate) ==
    \/ (checkInDate >= existingCheckInDate /\ checkInDate <= existingCheckOutDate)
    \/ (newCheckOutDate > existingCheckInDate /\ newCheckOutDate <= existingCheckOutDate)
    \/ (checkInDate <= existingCheckInDate /\ newCheckOutDate >= existingCheckOutDate)

\* the condition of the if in isDateRangeAvailable, for one existing booking
dateRangeClash(checkInDate, newCheckOutDate, existingCheckInDate, existingCheckOutDate) ==
    \/ (checkInDate >= existingCheckInDate /\ checkInDate < existingCheckOutDate)
    \/ (newCheckOutDate > existingCheckInDate /\ newCheckOutDate <= existingCheckOutDate)
    \/ (checkInDate <= existingCheckInDate /\ newCheckOutDate >= existingCheckOutDate)

getAllBookingsOnUnit(rows, unitID) ==
    SelectSeq(rows, LAMBDA b : b.unitID = unitID)

\* findManyGuestUnit with the guest condition missing
findManyUnitOnly(rows, guestName, unitID) ==
    SelectSeq(rows, LAMBDA b : b.unitID = unitID)

findManyGuestUnit(rows, guestName, unitID) ==
    SelectSeq(rows, LAMBDA b : b.guestName = guestName /\ b.unitID = unitID)

findManyGuest(rows, guestName) ==
    SelectSeq(rows, LAMBDA b : b.guestName = guestName)

\* dateRangeFree with the existing checkout date counted as occupied
dateRangeFreeClosedEnd(unitRows, checkInDate, numberOfNights) ==
    LET newCheckOutDate == getCheckoutDate(checkInDate, numberOfNights)
    IN  \A i \in 1..Len(unitRows) :
            ~dateRangeClash(checkInDate, newCheckOutDate,
                            unitRows[i].checkInDate,
                            getCheckoutDate(unitRows[i].checkInDate, unitRows[i].numberOfNights) + 1)

\* dateRangeFree returning after the first row of the unit
dateRangeFreeFirstRow(unitRows, checkInDate, numberOfNights) ==
    LET newCheckOutDate == getCheckoutDate(checkInDate, numberOfNights)
    IN  \A i \in 1..Len(unitRows) :
            i = 1 =>
                ~dateRangeClash(checkInDate, newCheckOutDate,
                                unitRows[i].checkInDate,
                                getCheckoutDate(unitRows[i].checkInDate, unitRows[i].numberOfNights))

\* the loop of isDateRangeAvailable over the rows its query returned
dateRangeFree(unitRows, checkInDate, numberOfNights) ==
    LET newCheckOutDate == getCheckoutDate(checkInDate, numberOfNights)
    IN  \A i \in 1..Len(unitRows) :
            ~dateRangeClash(checkInDate, newCheckOutDate,
                            unitRows[i].checkInDate,
                            getCheckoutDate(unitRows[i].checkInDate, unitRows[i].numberOfNights))

isDateRangeAvailable(rows, checkInDate, numberOfNights, unitID) ==
    dateRangeFree(getAllBookingsOnUnit(rows, unitID), checkInDate, numberOfNights)

\* isBookingPossible without check 2
isBookingPossibleNoGuestCheck(rows, booking) ==
    IF Len(findManyGuestUnit(rows, booking.guestName, booking.unitID)) > 0
    THEN [result |-> FALSE, reason |-> ReasonSameUnit]
    ELSE IF /\ Len(getAllBookingsOnUnit(rows, booking.unitID)) > 0
            /\ ~isDateRangeAvailable(rows, booking.checkInDate, booking.numberOfNights, booking.unitID)
    THEN [result |-> FALSE, reason |-> ReasonOccupied]
    ELSE [result |-> TRUE, reason |-> "OK"]

\* isBookingPossible with check 2 before check 1
isBookingPossibleGuestCheckFirst(rows, booking) ==
    IF Len(findManyGuest(rows, booking.guestName)) > 0
    THEN [result |-> FALSE, reason |-> ReasonMultipleUnits]
    ELSE IF Len(findManyGuestUnit(rows, booking.guestName, booking.unitID)) > 0
    THEN [result |-> FALSE, reason |-> ReasonSameUnit]
    ELSE IF /\ Len(getAllBookingsOnUnit(rows, booking.unitID)) > 0
            /\ ~isDateRangeAvailable(rows, booking.checkInDate, booking.numberOfNights, booking.unitID)
    THEN [result |-> FALSE, reason |-> ReasonOccupied]
    ELSE [result |-> TRUE, reason |-> "OK"]

\* isBookingPossible with check 2 looking only at bookings that overlap the request
isBookingPossibleGuestCheckByDate(rows, booking) ==
    IF Len(findManyGuestUnit(rows, booking.guestName, booking.unitID)) > 0
    THEN [result |-> FALSE, reason |-> ReasonSameUnit]
    ELSE IF \E i \in 1..Len(rows) :
                /\ rows[i].guestName = booking.guestName
                /\ booking.checkInDate < rows[i].checkInDate + rows[i].numberOfNights
                /\ rows[i].checkInDate < booking.checkInDate + booking.numberOfNights
    THEN [result |-> FALSE, reason |-> ReasonMultipleUnits]
    ELSE IF /\ Len(getAllBookingsOnUnit(rows, booking.unitID)) > 0
            /\ ~isDateRangeAvailable(rows, booking.checkInDate, booking.numberOfNights, booking.unitID)
    THEN [result |-> FALSE, reason |-> ReasonOccupied]
    ELSE [result |-> TRUE, reason |-> "OK"]

isBookingPossible(rows, booking) ==
    IF Len(findManyGuestUnit(rows, booking.guestName, booking.unitID)) > 0
    THEN [result |-> FALSE, reason |-> ReasonSameUnit]
    ELSE IF Len(findManyGuest(rows, booking.guestName)) > 0
    THEN [result |-> FALSE, reason |-> ReasonMultipleUnits]
    ELSE IF /\ Len(getAllBookingsOnUnit(rows, booking.unitID)) > 0
            /\ ~isDateRangeAvailable(rows, booking.checkInDate, booking.numberOfNights, booking.unitID)
    THEN [result |-> FALSE, reason |-> ReasonOccupied]
    ELSE [result |-> TRUE, reason |-> "OK"]

\* prisma.booking.create: the new row gets the next id
newRow(rows, booking) ==
    [id |-> Len(rows) + 1,
     guestName |-> booking.guestName,
     unitID |-> booking.unitID,
     checkInDate |-> booking.checkInDate,
     numberOfNights |-> booking.numberOfNights]

\* updateNights written as an updateMany on the unit of the row
updateNightsOfUnit(rows, id, numberOfNights) ==
    [i \in 1..Len(rows) |->
        IF rows[i].unitID = rows[id].unitID
        THEN [rows[i] EXCEPT !.numberOfNights = numberOfNights]
        ELSE rows[i]]

\* prisma.booking.update({where: {id}, data: {numberOfNights}})
updateNights(rows, id, numberOfNights) ==
    [rows EXCEPT ![id].numberOfNights = numberOfNights]

Rejected(reason) == [status |-> 400, reason |-> reason, booking |-> <<>>]
Accepted(row) == [status |-> 200, reason |-> "", booking |-> <<row>>]

\* createBookingRun with the create not skipped after a rejection
createBookingRunNoReturn(rows, booking) ==
    LET outcome == isBookingPossible(rows, booking)
    IN  IF ~outcome.result
        THEN [store |-> Append(rows, newRow(rows, booking)),
              res |-> Rejected(outcome.reason)]
        ELSE [store |-> Append(rows, newRow(rows, booking)),
              res |-> Accepted(newRow(rows, booking))]

\* createBooking run without interruption on table rows
createBookingRun(rows, booking) ==
    LET outcome == isBookingPossible(rows, booking)
    IN  IF ~outcome.result
        THEN [store |-> rows, res |-> Rejected(outcome.reason)]
        ELSE [store |-> Append(rows, newRow(rows, booking)),
              res |-> Accepted(newRow(rows, booking))]

\* findFirstGuestUnit matching the guest name only
findFirstGuestOnly(rows, guestName, unitID) ==
    {i \in 1..Len(rows) : rows[i].guestName = guestName}

\* findFirst has no orderBy: any matching row may be the one returned
findFirstGuestUnit(rows, guestName, unitID) ==
    {i \in 1..Len(rows) : rows[i].guestName = guestName /\ rows[i].unitID = unitID}

\* extendFound without the availability check
extendFoundUnchecked(rows, i, extend) ==
    LET newNights == rows[i].numberOfNights + extend.numberOfNights
    IN  [store |-> updateNights(rows, rows[i].id, newNights),
         res |-> Accepted(updateNights(rows, rows[i].id, newNights)[i])]

\* the part of extendBooking after hasActiveBooking was found at position i
extendFound(rows, i, extend) ==
    LET hasActiveBooking == rows[i]
        extendedCheckInDate == getCheckoutDate(hasActiveBooking.checkInDate,
                                               hasActiveBooking.numberOfNights)
        newNights == hasActiveBooking.numberOfNights + extend.numberOfNights
    IN  IF ~isDateRangeAvailable(rows, extendedCheckInDate, extend.numberOfNights, extend.unitID)
        THEN [store |-> rows, res |-> Rejected(ReasonExtend)]
        ELSE [store |-> updateNights(rows, hasActiveBooking.id, newNights),
              res |-> Accepted(updateNights(rows, hasActiveBooking.id, newNights)[i])]

\* extendBooking run without interruption: the set of its possible results
extendBookingRun(rows, extend) ==
    IF findFirstGuestUnit(rows, extend.guestName, extend.unitID) = {}
    THEN {[store |-> rows, res |-> Rejected(ReasonNoActive)]}
    ELSE {extendFound(rows, i, extend) :
              i \in findFirstGuestUnit(rows, extend.guestName, extend.unitID)}

\* -------------------------------------------------------------- requests
CreateRequests(nights) ==
    [kind : {"create"}, guestName : Guests, unitID : Units,
     checkInDate : Days, numberOfNights : nights]

ExtendRequests(nights) ==
    [kind : {"extend"}, guestName : Guests, unitID : Units, numberOfNights : nights]

PositiveNights == 1..MaxNights
AnyNights == (-1)..MaxNights

\* the model issues no request that would store a negative night count or
\* one above MaxStay
WithinStay(rows) ==
    \A i \in 1..Len(rows) :
        rows[i].numberOfNights >= 0 /\ rows[i].numberOfNights <= MaxStay

\* ------------------------------------------------------------------ init
NoRequest == [kind |-> "none"]
NoResponse == [status |-> 0, reason |-> "", booking |-> <<>>]
Idle == [pc |-> "idle", req |-> NoRequest, res |-> NoResponse, found |-> <<>>]
NoProbe == [a |-> <<0, 0>>, b |-> <<0, 0>>, done |-> FALSE, ab |-> FALSE, ba |-> FALSE]

Init ==
    /\ bookings = <<>>
    /\ request = NoRequest
    /\ response = NoResponse
    /\ proc = [p \in Procs |-> Idle]
    /\ base = <<>>
    /\ probe = NoProbe

\* ------------------------------------------- handlers, one request at a time
CreateBooking(booking) ==
    LET r == createBookingRun(bookings, booking)
    IN  /\ WithinStay(r.store)
        /\ bookings' = r.store
        /\ request' = booking
        /\ response' = r.res
        /\ UNCHANGED <<proc, base, probe>>

ExtendBooking(extend) ==
    \E r \in extendBookingRun(bookings, extend) :
        /\ WithinStay(r.store)
        /\ bookings' = r.store
        /\ request' = extend
        /\ response' = r.res
        /\ UNCHANGED <<proc, base, probe>>

Next ==
    \/ \E booking \in CreateRequests(PositiveNights) : CreateBooking(booking)
    \/ \E extend \in ExtendRequests(PositiveNights) : ExtendBooking(extend)

Spec == Init /\ [][Next]_vars

NextAny ==
    \/ \E booking \in CreateRequests(AnyNights) : CreateBooking(booking)
    \/ \E extend \in ExtendRequests(AnyNights) : ExtendBooking(extend)

SpecAny == Init /\ [][NextAny]_vars

\* ------------------------------ two handlers running concurrently, each
\* await of a handler being one step
RaceNights == 1..MaxRaceNights
RaceRequests ==
    [kind : {"create"}, guestName : Guests, unitID : Units,
     checkInDate : 1..MaxRaceDay, numberOfNights : RaceNights]
        \cup ExtendRequests(RaceNights)

Started(r) ==
    [pc |-> IF r.kind = "create" THEN "check1" ELSE "find",
     req |-> r, res |-> NoResponse, found |-> <<>>]

\* nights that request r asks to add to the bookings of guest g in unit u
ExtraNights(r, g, u) ==
    IF r.kind = "extend" /\ r.guestName = g /\ r.unitID = u THEN r.numberOfNights ELSE 0

\* the table takes the pair of requests r1 and r2
StartPair(r1, r2) ==
    /\ \A i \in 1..Len(bookings) :
           bookings[i].numberOfNights
               + ExtraNights(r1, bookings[i].guestName, bookings[i].unitID)
               + ExtraNights(r2, bookings[i].guestName, bookings[i].unitID) <= MaxRaceStay
    /\ proc' = [p \in Procs |-> IF p = 1 THEN Started(r1) ELSE Started(r2)]
    /\ base' = bookings
    /\ UNCHANGED <<bookings, request, response, probe>>

\* a pair of requests arrives while no handler is running and the table
\* holds at most one row
PairArrives ==
    /\ \A p \in Procs : proc[p].pc = "idle"
    /\ Len(bookings) <= 1
    /\ \E r1, r2 \in RaceRequests : StartPair(r1, r2)

Reject(p, reason) ==
    proc' = [proc EXCEPT ![p].pc = "done", ![p].res = Rejected(reason)]

Goto(p, label) ==
    proc' = [proc EXCEPT ![p].pc = label]

\* isBookingPossible, check 1
CreateCheck1(p) ==
    /\ proc[p].pc = "check1"
    /\ IF Len(findManyGuestUnit(bookings, proc[p].req.guestName, proc[p].req.unitID)) > 0
       THEN Reject(p, ReasonSameUnit)
       ELSE Goto(p, "check2")
    /\ UNCHANGED <<bookings, request, response, base, probe>>

\* isBookingPossible, check 2
CreateCheck2(p) ==
    /\ proc[p].pc = "check2"
    /\ IF Len(findManyGuest(bookings, proc[p].req.guestName)) > 0
       THEN Reject(p, ReasonMultipleUnits)
       ELSE Goto(p, "check3")
    /\ UNCHANGED <<bookings, request, response, base, probe>>

\* isBookingPossible, check 3: the first query of the unit's bookings
CreateCheck3(p) ==
    /\ proc[p].pc = "check3"
    /\ IF Len(getAllBookingsOnUnit(bookings, proc[p].req.unitID)) > 0
       THEN Goto(p, "available")
       ELSE Goto(p, "create")
    /\ UNCHANGED <<bookings, request, response, base, probe>>

\* isBookingPossible, check 3: isDateRangeAvailable queries the unit again
CreateAvailable(p) ==
    /\ proc[p].pc = "available"
    /\ IF ~isDateRangeAvailable(bookings, proc[p].req.checkInDate,
                                proc[p].req.numberOfNights, proc[p].req.unitID)
       THEN Reject(p, ReasonOccupied)
       ELSE Goto(p, "create")
    /\ UNCHANGED <<bookings, request, response, base, probe>>

\* createWrite done in one transaction with the checks
createWriteChecked(rows, booking) == createBookingRun(rows, booking)

\* createBooking after isBookingPossible said yes: prisma.booking.create and the 200
createWrite(rows, booking) ==
    [store |-> Append(rows, newRow(rows, booking)),
     res |-> Accepted(newRow(rows, booking))]

CreateWrite(p) ==
    /\ proc[p].pc = "create"
    /\ bookings' = createWrite(bookings, proc[p].req).store
    /\ proc' = [proc EXCEPT ![p].pc = "done",
                            ![p].res = createWrite(bookings, proc[p].req).res]
    /\ UNCHANGED <<request, response, base, probe>>

\* extendBooking: findFirst and the check of its result
ExtendFind(p) ==
    /\ proc[p].pc = "find"
    /\ IF findFirstGuestUnit(bookings, proc[p].req.guestName, proc[p].req.unitID) = {}
       THEN Reject(p, ReasonNoActive)
       ELSE \E i \in findFirstGuestUnit(bookings, proc[p].req.guestName, proc[p].req.unitID) :
               proc' = [proc EXCEPT ![p].pc = "extendable", ![p].found = <<bookings[i]>>]
    /\ UNCHANGED <<bookings, request, response, base, probe>>

\* extendBooking: isDateRangeAvailable from the checkout date of the row found
ExtendAvailable(p) ==
    /\ proc[p].pc = "extendable"
    /\ LET hasActiveBooking == proc[p].found[1]
           extendedCheckInDate == getCheckoutDate(hasActiveBooking.checkInDate,
                                                  hasActiveBooking.numberOfNights)
       IN  IF ~isDateRangeAvailable(bookings, extendedCheckInDate,
                                    proc[p].req.numberOfNights, proc[p].req.unitID)
           THEN Reject(p, ReasonExtend)
           ELSE Goto(p, "update")
    /\ UNCHANGED <<bookings, request, response, base, probe>>

\* extendBooking: prisma.booking.update with the night count of the row found
extendWrite(rows, hasActiveBooking, extend) ==
    updateNights(rows, hasActiveBooking.id,
                 hasActiveBooking.numberOfNights + extend.numberOfNights)

ExtendWrite(p) ==
    /\ proc[p].pc = "update"
    /\ bookings' = extendWrite(bookings, proc[p].found[1], proc[p].req)
    /\ proc' = [proc EXCEPT
                   ![p].pc = "done",
                   ![p].res = Accepted(extendWrite(bookings, proc[p].found[1],
                                                   proc[p].req)[proc[p].found[1].id])]
    /\ UNCHANGED <<request, response, base, probe>>

\* both handlers have returned; their locals are gone
Settle ==
    /\ \A p \in Procs : proc[p].pc = "done"
    /\ proc' = [p \in Procs |-> Idle]
    /\ base' = <<>>
    /\ UNCHANGED <<bookings, request, response, probe>>

NextRace ==
    \/ PairArrives
    \/ Settle
    \/ \E p \in Procs :
          \/ CreateCheck1(p)
          \/ CreateCheck2(p)
          \/ CreateCheck3(p)
          \/ CreateAvailable(p)
          \/ CreateWrite(p)
          \/ ExtendFind(p)
          \/ ExtendAvailable(p)
          \/ ExtendWrite(p)

SpecRace == Init /\ [][NextRace]_vars

\* --------------------------------- the overlap test evaluated on its own
ProbeIntervals == Days \X (0..MaxProbeNights)

\* a table holding one booking with the given interval
oneBooking(interval) ==
    <<[id |-> 1, guestName |-> "ann", unitID |-> "u1",
       checkInDate |-> interval[1], numberOfNights |-> interval[2]]>>

InitProbe ==
    /\ bookings = <<>>
    /\ request = NoRequest
    /\ response = NoResponse
    /\ proc = [p \in Procs |-> Idle]
    /\ base = <<>>
    /\ probe \in [a : ProbeIntervals, b : ProbeIntervals,
                  done : {FALSE}, ab : {FALSE}, ba : {FALSE}]

\* isDateRangeAvailable with a as candidate against b, and with b against a
EvaluateProbe ==
    /\ ~probe.done
    /\ probe' = [probe EXCEPT
                    !.done = TRUE,
                    !.ab = ~isDateRangeAvailable(oneBooking(probe.b), probe.a[1], probe.a[2], "u1"),
                    !.ba = ~isDateRangeAvailable(oneBooking(probe.a), probe.b[1], probe.b[2], "u1")]
    /\ UNCHANGED <<bookings, request, response, proc, base>>

NextProbe == EvaluateProbe

SpecProbe == InitProbe /\ [][NextProbe]_vars

\* ------------------------------------------------------------ properties
\* half-open intervals [aStart, aStart + aNights) and [bStart, bStart + bNights)
\* share a day
Overlap(aStart, aNights, bStart, bNights) ==
    aStart < bStart + bNights /\ bStart < aStart + aNights

\* C5: for night counts >= 1 the three-case condition of isDateRangeAvailable
\* is true exactly when candidateStart < existingEnd and
\* existingStart < candidateEnd.
OverlapTestEquivalence ==
    (probe.done /\ probe.a[2] >= 1 /\ probe.b[2] >= 1)
        => (probe.ab <=> Overlap(probe.a[1], probe.a[2], probe.b[1], probe.b[2]))

\* the candidate strictly contains the existing booking: only the third case applies
OverlapTestContainsCase ==
    /\ probe.done /\ probe.b[2] >= 1
    /\ probe.a[1] < probe.b[1]
    /\ probe.a[1] + probe.a[2] > probe.b[1] + probe.b[2]
    /\ probe.ab

\* C6: the overlap condition gives the same result with the two intervals
\* exchanged.
OverlapSymmetry ==
    probe.done => (probe.ab <=> probe.ba)

\* the candidate starts before the existing booking and ends inside it
OverlapSymmetryCase ==
    /\ probe.done /\ probe.a[2] >= 1 /\ probe.b[2] >= 1
    /\ probe.a[1] < probe.b[1]
    /\ probe.a[1] + probe.a[2] > probe.b[1]
    /\ probe.a[1] + probe.a[2] < probe.b[1] + probe.b[2]
    /\ probe.ab /\ probe.ba

\* rows i and j of the table are two bookings of one unit that share a day
RowsOverlap(rows, i, j) ==
    /\ i # j
    /\ rows[i].unitID = rows[j].unitID
    /\ Overlap(rows[i].checkInDate, rows[i].numberOfNights,
               rows[j].checkInDate, rows[j].numberOfNights)

\* C1: with requests handled one at a time and night counts >= 1, no two
\* stored reservations of one unit have overlapping intervals
\* [checkIn, checkIn + nights).
UnitNonOverlap ==
    \A i, j \in 1..Len(bookings) : ~RowsOverlap(bookings, i, j)

\* an extension went through in a unit that holds a second reservation
UnitNonOverlapCase ==
    /\ request.kind = "extend"
    /\ response.status = 200
    /\ Len(getAllBookingsOnUnit(bookings, request.unitID)) = 2

\* C2: with requests handled one at a time, each guest has at most one
\* stored reservation across all units.
GuestUniqueness ==
    \A i, j \in 1..Len(bookings) :
        bookings[i].guestName = bookings[j].guestName => i = j

\* every guest holds a reservation and a further booking was turned down
GuestUniquenessCase ==
    /\ request.kind = "create"
    /\ response.status = 400
    /\ response.reason = ReasonMultipleUnits
    /\ \A g \in Guests : Len(findManyGuest(bookings, g)) = 1

\* C7: a createBooking whose guest already has a reservation for the same
\* unit is rejected with the "same unit multiple times" reason, whatever the
\* dates and whatever else is stored.
RuleOnePrecedence ==
    [][(/\ request'.kind = "create"
        /\ Len(findManyGuestUnit(bookings, request'.guestName, request'.unitID)) > 0)
         => (response' = Rejected(ReasonSameUnit) /\ bookings' = bookings)]_vars

\* rejected by rule 1 although the requested interval overlaps nothing stored
RuleOnePrecedenceCase ==
    /\ request.kind = "create"
    /\ response.reason = ReasonSameUnit
    /\ Len(bookings) = 2
    /\ \A i \in 1..Len(bookings) :
           ~Overlap(request.checkInDate, request.numberOfNights,
                    bookings[i].checkInDate, bookings[i].numberOfNights)

\* C8: a createBooking whose guest has a reservation in a different unit and
\* none in the requested unit is rejected with the "multiple units" reason,
\* whatever the dates and whether or not the requested unit is free.
RuleTwo ==
    [][(/\ request'.kind = "create"
        /\ Len(findManyGuestUnit(bookings, request'.guestName, request'.unitID)) = 0
        /\ \E i \in 1..Len(bookings) :
               /\ bookings[i].guestName = request'.guestName
               /\ bookings[i].unitID # request'.unitID)
         => (response' = Rejected(ReasonMultipleUnits) /\ bookings' = bookings)]_vars

\* rejected by rule 2 for dates that overlap nothing, the requested unit empty
RuleTwoCase ==
    /\ request.kind = "create"
    /\ response.reason = ReasonMultipleUnits
    /\ Len(getAllBookingsOnUnit(bookings, request.unitID)) = 0
    /\ \A i \in 1..Len(bookings) :
           ~Overlap(request.checkInDate, request.numberOfNights,
                    bookings[i].checkInDate, bookings[i].numberOfNights)

\* the candidate interval overlaps a booking of the unit stored in rows
UnitOccupied(rows, unitID, checkInDate, numberOfNights) ==
    \E i \in 1..Len(rows) :
        /\ rows[i].unitID = unitID
        /\ Overlap(checkInDate, numberOfNights, rows[i].checkInDate, rows[i].numberOfNights)

\* C9: a createBooking (nights >= 1) by a guest without a stored reservation
\* is accepted iff its interval overlaps no stored reservation of the unit;
\* a check-in on an existing checkout date is accepted, a stay covering only
\* the last occupied night is rejected with the "unit occupied" reason.
CreateAvailability ==
    [][(/\ request'.kind = "create"
        /\ Len(findManyGuest(bookings, request'.guestName)) = 0)
         => IF UnitOccupied(bookings, request'.unitID,
                            request'.checkInDate, request'.numberOfNights)
            THEN response' = Rejected(ReasonOccupied) /\ bookings' = bookings
            ELSE /\ response'.status = 200
                 /\ bookings' = Append(bookings, newRow(bookings, request'))]_vars

\* accepted with the check-in on the checkout date of a stored reservation
CreateAvailabilityCase ==
    /\ request.kind = "create"
    /\ response.status = 200
    /\ \E i \in 1..Len(bookings) :
           /\ bookings[i].unitID = request.unitID
           /\ bookings[i].guestName # request.guestName
           /\ bookings[i].checkInDate + bookings[i].numberOfNights = request.checkInDate

\* a reservation of the unit other than row i overlaps the nights that an
\* extension of row i by additionalNights would add
ExtensionBlocked(rows, i, additionalNights) ==
    \E j \in 1..Len(rows) :
        /\ j # i
        /\ rows[j].unitID = rows[i].unitID
        /\ Overlap(rows[i].checkInDate + rows[i].numberOfNights, additionalNights,
                   rows[j].checkInDate, rows[j].numberOfNights)

\* on this step extendBooking answered a request for stored row i
ExtendsRow(i) ==
    /\ request'.kind = "extend"
    /\ i \in findFirstGuestUnit(bookings, request'.guestName, request'.unitID)

\* C10 as stated: for every stored reservation and every additionalNights,
\* the extension succeeds whenever no other reservation of the unit overlaps
\* [checkOut, checkOut + additionalNights).
ExtendSelfExclusionAnyNights ==
    [][\A i \in 1..Len(bookings) :
          (ExtendsRow(i) /\ ~ExtensionBlocked(bookings, i, request'.numberOfNights))
              => response'.status = 200]_vars

\* The same for tables built by requests with night counts >= 1 and for
\* additionalNights >= 1: there the extension succeeds exactly when no other
\* reservation of the unit overlaps [checkOut, checkOut + additionalNights),
\* the row being extended, although part of the comparison, matches no case.
ExtendSelfExclusion ==
    [][\A i \in 1..Len(bookings) :
          ExtendsRow(i)
              => IF ExtensionBlocked(bookings, i, request'.numberOfNights)
                 THEN response' = Rejected(ReasonExtend)
                 ELSE /\ response'.status = 200
                      /\ bookings'[i].numberOfNights =
                             bookings[i].numberOfNights + request'.numberOfNights]_vars

\* an extension went through up to the check-in date of the next reservation
ExtendSelfExclusionCase ==
    /\ request.kind = "extend"
    /\ response.status = 200
    /\ \E i, j \in 1..Len(bookings) :
           /\ bookings[i].guestName = request.guestName
           /\ bookings[i].unitID = request.unitID
           /\ bookings[j].unitID = request.unitID
           /\ bookings[j].checkInDate = bookings[i].checkInDate + bookings[i].numberOfNights

\* requests r and s are bookings of one unit by two guests for intervals
\* that share a day
RivalCreates(r, s) ==
    /\ r.kind = "create" /\ s.kind = "create"
    /\ r.guestName # s.guestName
    /\ r.unitID = s.unitID
    /\ Overlap(r.checkInDate, r.numberOfNights, s.checkInDate, s.numberOfNights)

\* C3: two concurrent createBooking requests by different guests for one
\* unit and overlapping dates can both find the unit available; the one
\* that writes second then commits as well, and the table holds two
\* overlapping reservations of the unit.
CreateCreateRace ==
    [][\A p, q \in Procs :
          (/\ RivalCreates(proc[p].req, proc[q].req)
           /\ proc[q].pc = "done" /\ proc[q].res.status = 200
           /\ proc[p].pc = "create"
           /\ proc'[p].pc = "done")
              => /\ proc'[p].res.status = 200
                 /\ \E i, j \in 1..Len(bookings') : RowsOverlap(bookings', i, j)]_vars

\* both rival bookings were accepted and their rows overlap in the table
CreateCreateRaceCase ==
    /\ RivalCreates(proc[1].req, proc[2].req)
    /\ \A p \in Procs : proc[p].pc = "done" /\ proc[p].res.status = 200
    /\ \E i, j \in 1..Len(bookings) :
           /\ RowsOverlap(bookings, i, j)
           /\ <<bookings[i]>> = proc[1].res.booking
           /\ <<bookings[j]>> = proc[2].res.booking

\* request r handled without interruption on table rows: its possible results
Run(rows, r) ==
    IF r.kind = "create" THEN {createBookingRun(rows, r)} ELSE extendBookingRun(rows, r)

\* final table and the two responses of r1 then r2, each without interruption
OneAfterTheOther(rows, r1, r2) ==
    UNION {{[store |-> s2.store, first |-> s1.res, second |-> s2.res] :
               s2 \in Run(s1.store, r2)} : s1 \in Run(rows, r1)}

\* the finished pair of concurrent requests ended as one of its two serial
\* executions from the same table would
Serializable ==
    \/ [store |-> bookings, first |-> proc[1].res, second |-> proc[2].res]
           \in OneAfterTheOther(base, proc[1].req, proc[2].req)
    \/ [store |-> bookings, first |-> proc[2].res, second |-> proc[1].res]
           \in OneAfterTheOther(base, proc[2].req, proc[1].req)

\* C4: two concurrent requests that name different units, whatever guests
\* they name, end in every interleaving with the outcomes and the table of
\* one of their serial executions.
DifferentUnitsIndependent ==
    (/\ \A p \in Procs : proc[p].pc = "done"
     /\ proc[1].req.unitID # proc[2].req.unitID)
        => Serializable

\* C11: when another reservation of the unit overlaps
\* [checkOut, checkOut + additionalNights) of the reservation being extended,
\* in particular one starting exactly at that checkOut, extendBooking is
\* rejected with the "extend not possible" reason and the stored nights stay
\* as they were.
BlockedExtension ==
    [][\A i \in 1..Len(bookings) :
          (ExtendsRow(i) /\ ExtensionBlocked(bookings, i, request'.numberOfNights))
              => (response' = Rejected(ReasonExtend) /\ bookings' = bookings)]_vars

\* an extension was turned down because of a reservation that starts on the
\* checkout date of the one to be extended
BlockedExtensionCase ==
    /\ request.kind = "extend"
    /\ response = Rejected(ReasonExtend)
    /\ \E i, j \in 1..Len(bookings) :
           /\ bookings[i].guestName = request.guestName
           /\ bookings[i].unitID = request.unitID
           /\ j # i
           /\ bookings[j].unitID = request.unitID
           /\ bookings[j].checkInDate = bookings[i].checkInDate + bookings[i].numberOfNights

\* C12: an extendBooking for a (guest, unit) pair without a stored
\* reservation matching both is rejected with the "no active booking" reason
\* and leaves the table unchanged, whatever the guest holds in other units
\* and whatever other guests hold in that unit.
ExtendWithoutBooking ==
    [][(/\ request'.kind = "extend"
        /\ ~\E i \in 1..Len(bookings) :
               /\ bookings[i].guestName = request'.guestName
               /\ bookings[i].unitID = request'.unitID)
         => (response' = Rejected(ReasonNoActive) /\ bookings' = bookings)]_vars

\* turned down although the guest holds a reservation in another unit and
\* another guest holds one in the requested unit
ExtendWithoutBookingCase ==
    /\ request.kind = "extend"
    /\ response = Rejected(ReasonNoActive)
    /\ \E i, j \in 1..Len(bookings) :
           /\ bookings[i].guestName = request.guestName
           /\ bookings[i].unitID # request.unitID
           /\ bookings[j].guestName # request.guestName
           /\ bookings[j].unitID = request.unitID

\* C13: every stored reservation has nights >= 1 in every reachable table,
\* for all request inputs including createBooking with nights <= 0 and
\* extendBooking with additionalNights <= 0.
StoredNightsPositive ==
    \A i \in 1..Len(bookings) : bookings[i].numberOfNights >= 1

\* the reason of the first of the three rules that request r fails on
\* table rows, "" if it fails none
FirstFailingRule(rows, r) ==
    IF \E i \in 1..Len(rows) :
           rows[i].guestName = r.guestName /\ rows[i].unitID = r.unitID
    THEN ReasonSameUnit
    ELSE IF \E i \in 1..Len(rows) : rows[i].guestName = r.guestName
    THEN ReasonMultipleUnits
    ELSE IF UnitOccupied(rows, r.unitID, r.checkInDate, r.numberOfNights)
    THEN ReasonOccupied
    ELSE ""

\* C14: a createBooking rejected by any of the three rules leaves the table
\* exactly as it was, and the caller receives the reason of the first
\* failing rule.
NoMutationOnRejection ==
    [][(request'.kind = "create" /\ FirstFailingRule(bookings, request') # "")
          => /\ bookings' = bookings
             /\ response' = Rejected(FirstFailingRule(bookings, request'))]_vars

\* rejected as occupied by a guest without reservations; the stored row stays
NoMutationOnRejectionCase ==
    /\ request.kind = "create"
    /\ response = Rejected(ReasonOccupied)
    /\ Len(bookings) = 1
    /\ bookings[1].id = 1

\* C15: a successful extendBooking changes exactly the stored reservation
\* matching guest and unit: its nights become old nights + additionalNights,
\* its id, guest, unit and checkIn stay, and every other reservation and the
\* number of reservations stay.
ExtensionFrame ==
    [][(request'.kind = "extend" /\ response'.status = 200)
          => /\ Len(bookings') = Len(bookings)
             /\ \E i \in 1..Len(bookings) :
                    /\ bookings[i].guestName = request'.guestName
                    /\ bookings[i].unitID = request'.unitID
                    /\ bookings'[i] =
                           [id |-> bookings[i].id,
                            guestName |-> bookings[i].guestName,
                            unitID |-> bookings[i].unitID,
                            checkInDate |-> bookings[i].checkInDate,
                            numberOfNights |-> bookings[i].numberOfNights
                                                + request'.numberOfNights]
                    /\ response'.booking = <<bookings'[i]>>
                    /\ \A j \in 1..Len(bookings) : j # i => bookings'[j] = bookings[j]]_vars

\* an extension went through while the unit held a second, earlier reservation
ExtensionFrameCase ==
    /\ request.kind = "extend"
    /\ response.status = 200
    /\ \E i, j \in 1..Len(bookings) :
           /\ <<bookings[i]>> = response.booking
           /\ j # i
           /\ bookings[j].unitID = bookings[i].unitID
           /\ bookings[j].checkInDate + bookings[j].numberOfNights <= bookings[i].checkInDate

\* C16: across every step the nights of a stored reservation never decrease,
\* and a successful extension strictly increases them, for every
\* additionalNights value a request can carry.
NightsMonotonic ==
    [][/\ \A i \in 1..Len(bookings) :
             bookings'[i].numberOfNights >= bookings[i].numberOfNights
       /\ (request'.kind = "extend" /\ response'.status = 200)
             => \E i \in 1..Len(bookings) :
                    bookings'[i].numberOfNights > bookings[i].numberOfNights]_vars

\* isBookingPossible with check 1 taken out
isBookingPossibleWithoutCheck1(rows, booking) ==
    IF Len(findManyGuest(rows, booking.guestName)) > 0
    THEN [result |-> FALSE, reason |-> ReasonMultipleUnits]
    ELSE IF /\ Len(getAllBookingsOnUnit(rows, booking.unitID)) > 0
            /\ ~isDateRangeAvailable(rows, booking.checkInDate, booking.numberOfNights, booking.unitID)
    THEN [result |-> FALSE, reason |-> ReasonOccupied]
    ELSE [result |-> TRUE, reason |-> "OK"]

\* C17: whenever check 1 rejects a createBooking, check 2 would reject it
\* too; createBooking without check 1 accepts the same requests and so moves
\* every reachable table to the same table, only the reason differs.
RuleOneSubsumed ==
    \A b \in CreateRequests(PositiveNights) :
        /\ Len(findManyGuestUnit(bookings, b.guestName, b.unitID)) > 0
               => Len(findManyGuest(bookings, b.guestName)) > 0
        /\ isBookingPossibleWithoutCheck1(bookings, b).result
               = isBookingPossible(bookings, b).result
        /\ isBookingPossible(bookings, b).reason # ReasonSameUnit
               => isBookingPossibleWithoutCheck1(bookings, b).reason
                      = isBookingPossible(bookings, b).reason

\* check 1 turned a request down that check 2 alone would turn down as well
RuleOneSubsumedCase ==
    /\ request.kind = "create"
    /\ response = Rejected(ReasonSameUnit)
    /\ isBookingPossibleWithoutCheck1(bookings, request).reason = ReasonMultipleUnits

\* C18: when two extendBooking requests for the same reservation, by a and
\* by b nights, both return success, the stored nights end at
\* original + a + b, also when the two run concurrently.
NoLostExtension ==
    (/\ \A p \in Procs :
           /\ proc[p].pc = "done"
           /\ proc[p].req.kind = "extend"
           /\ proc[p].res.status = 200
     /\ proc[1].req.guestName = proc[2].req.guestName
     /\ proc[1].req.unitID = proc[2].req.unitID)
        => \A i \in 1..Len(base) :
               (base[i].guestName = proc[1].req.guestName
                    /\ base[i].unitID = proc[1].req.unitID)
                   => bookings[i].numberOfNights =
                          base[i].numberOfNights + proc[1].req.numberOfNights
                                                 + proc[2].req.numberOfNights

\* C19: when an extendBooking of a reservation of a unit runs concurrently
\* with a createBooking by another guest for that unit starting at the
\* reservation's checkOut, no interleaving in which both succeed leaves the
\* extended reservation overlapping the new one.
ExtendCreateNoOverlap ==
    \A p, q \in Procs :
        (/\ proc[p].pc = "done" /\ proc[q].pc = "done"
         /\ proc[p].req.kind = "extend" /\ proc[q].req.kind = "create"
         /\ proc[p].res.status = 200 /\ proc[q].res.status = 200
         /\ proc[p].req.unitID = proc[q].req.unitID
         /\ proc[p].req.guestName # proc[q].req.guestName
         /\ \E i \in 1..Len(base) :
                /\ base[i].guestName = proc[p].req.guestName
                /\ base[i].unitID = proc[p].req.unitID
                /\ proc[q].req.checkInDate = base[i].checkInDate + base[i].numberOfNights)
            => ~\E i, j \in 1..Len(bookings) : RowsOverlap(bookings, i, j)

====
